---- MODULE Spec2Model ----
(***************************************************************************)
(* Threshold BBS+ over BLS12-381: distributed key generation, distributed  *)
(* signing, signature reconstruction and the BBS+ core.                    *)
(*                                                                         *)
(* The groups G1, G2 and GT are cyclic of the same prime order q.  A point *)
(* is represented by its class in the group, written as its discrete       *)
(* logarithm to the generator: k stands for k*G1 (or k*G2, or gT^k), and 0 *)
(* for the point at infinity.  Two projective triples of one point are one *)
(* value here, so equality of points is the code's equality of normalized  *)
(* (affine) forms.  The subgroup order is scaled down to a small prime; all *)
(* scalar arithmetic is arithmetic modulo it, as in the code.               *)
(***************************************************************************)
EXTENDS Integers, Sequences, FiniteSets, TLC

\* ------------------------------------------------------------------ bounds

\* Largest number of DKG parties n.
MaxN == 3

\* secrets.randbelow(m) is explored at 0 and at the MaxDraw largest values.
MaxDraw == 1

\* Largest number of messages l of a signature; every message is in 0..MaxMsg.
MaxL == 2

MaxMsg == 1

\* Largest number of servers of a signing session.
MaxSigners == 2

\* Longest list of signature shares handed to the reconstructor as is.
MaxShares == 3

\* The Fiat-Shamir nonces are 0..MaxNonce.
MaxNonce == 1

\* The longest coefficient list given to evaluate_polynomial directly.
MaxCoeffs == 3

\* ------------------------------------------------- curve and field facade

\* curve_order, scaled down to a small prime.
FIELD_ORDER == 5

G1_GENERATOR == 1

G2_GENERATOR == 1

G1_INFINITY == 0

G2_INFINITY == 0

Fr == 0 .. (FIELD_ORDER - 1)

\* py_ecc add: the group law.
add(P, Q) == (P + Q) % FIELD_ORDER

\* py_ecc multiply: scalar multiplication, n >= 0.
multiply(P, n) == (P * n) % FIELD_ORDER

\* py_ecc pairing(Q in G2, P in G1): bilinear and non-degenerate.
pairing(Q, P) == (Q * P) % FIELD_ORDER

\* The integers a caller can pass where a scalar is expected, reduced modulo
\* q or not.
CallerScalars == 0 .. (2 * FIELD_ORDER - 1)

G1Points == {multiply(G1_GENERATOR, k) : k \in Fr}

G2Points == {multiply(G2_GENERATOR, k) : k \in Fr}

\* secrets.randbelow(m): the draws explored.
randbelow(m) == {0} \cup {k \in 0 .. (m - 1) : k >= m - MaxDraw}

\* Every result is a record with a kind; an exception is a result whose kind
\* is the exception's class.
ValueError == [kind |-> "ValueError"]

IndexError == [kind |-> "IndexError"]

TypeError == [kind |-> "TypeError"]

Raised(v) == v.kind \in {"ValueError", "IndexError", "TypeError"}

\* A returned True or False.
Bool(b) == [kind |-> "bool", val |-> b]

\* pow(a, -1, m) for a # 0 and m a prime.
ModPowInverse(a, m) == CHOOSE b \in 1 .. (m - 1) : (a * b) % m = 1

\* The inverse with 0 given as the inverse of 0.
modular_inverse_of_zero(a, m) ==
    IF m <= 1 THEN ValueError
    ELSE IF a = 0 THEN [kind |-> "int", val |-> 0]
    ELSE [kind |-> "int", val |-> ModPowInverse(a % m, m)]

modular_inverse(a, m) ==
    IF a = 0 \/ m <= 1 THEN ValueError ELSE [kind |-> "int", val |-> ModPowInverse(a % m, m)]

\* A Python dict {key: value} is a function; its keys are listed in
\* ascending order, the order in which every caller inserts them.
RECURSIVE SortedKeys(_)
SortedKeys(S) ==
    IF S = {} THEN <<>>
    ELSE LET m == CHOOSE a \in S : \A b \in S : a <= b
         IN  <<m>> \o SortedKeys(S \ {m})

EmptyDict == <<>>

\* The list as it is, not sorted.
sorted_as_given(list) == list

RECURSIVE sorted(_)
\* sorted(list): the elements of the list in ascending order.
sorted(list) ==
    IF list = <<>> THEN <<>>
    ELSE LET k == CHOOSE a \in 1 .. Len(list) : \A b \in 1 .. Len(list) : list[a] <= list[b]
         IN  <<list[k]>> \o sorted(SubSeq(list, 1, k - 1) \o SubSeq(list, k + 1, Len(list)))

\* -------------------------------------------------------- Shamir primitives

\* A polynomial of one coefficient more than degree + 1.
create_random_polynomial_one_more(degree, field_order) ==
    IF degree < 0 THEN {<<>>}
    ELSE [1 .. (degree + 2) -> randbelow(field_order)]

create_random_polynomial(degree, field_order) ==
    IF degree < 0 THEN {<<>>}
    ELSE [1 .. (degree + 1) -> randbelow(field_order)]

RECURSIVE Horner_forward(_, _, _, _, _)
\* The loop over coeffs instead of reversed(coeffs).
Horner_forward(coeffs, k, result, x, field_order) ==
    IF k = 0 THEN result
    ELSE Horner_forward(coeffs, k - 1,
                        (result * x + coeffs[Len(coeffs) - k + 1]) % field_order,
                        x, field_order)

\* Horner's rule over reversed(coeffs): coeffs[k] is the coefficient of x^(k-1).
RECURSIVE Horner(_, _, _, _, _)
Horner(coeffs, k, result, x, field_order) ==
    IF k = 0 THEN result
    ELSE Horner(coeffs, k - 1, (result * x + coeffs[k]) % field_order, x, field_order)

evaluate_polynomial(coeffs, x, field_order) ==
    IF coeffs = <<>> THEN 0
    ELSE Horner(coeffs, Len(coeffs), 0, x, field_order)

\* ---------------------------------------------------------- Lagrange engine

RECURSIVE BasisProduct(_, _, _, _)
\* The two running products of lagrange_basis over j = k..Len(points_x), j # i:
\* <<numerator, denominator>>, not reduced (Python integers).
BasisProduct(points_x, i, x, k) ==
    IF k > Len(points_x) THEN <<1, 1>>
    ELSE LET rest == BasisProduct(points_x, i, x, k + 1)
         IN  IF k = i THEN rest
             ELSE <<(x - points_x[k]) * rest[1], (points_x[i] - points_x[k]) * rest[2]>>

\* lagrange_basis(points_x, i, x, field_order); i counts from 1 here.
lagrange_basis(points_x, i, x, field_order) ==
    LET nd == BasisProduct(points_x, i, x, 1)
        final_denominator == nd[2] % field_order
        final_numerator == nd[1] % field_order
        inv_denominator == modular_inverse(final_denominator, field_order)
    IN  IF Raised(inv_denominator) THEN ValueError
        ELSE [kind |-> "int", val |-> (final_numerator * inv_denominator.val) % field_order]

\* Some basis of the interpolation raises (a zero denominator).
BasisRaises(points_x, x) ==
    \E i \in 1 .. Len(points_x) : Raised(lagrange_basis(points_x, i, x, FIELD_ORDER))

RECURSIVE InterpolateG2Loop(_, _, _, _)
InterpolateG2Loop(points, points_x, x_new, i) ==
    IF i = 0 THEN G2_INFINITY
    ELSE add(InterpolateG2Loop(points, points_x, x_new, i - 1),
             multiply(points[points_x[i]],
                      lagrange_basis(points_x, i, x_new, FIELD_ORDER).val))

interpolate_g2_points(points, x_new) ==
    LET points_x == SortedKeys(DOMAIN points)
    IN  IF BasisRaises(points_x, x_new) THEN ValueError
        ELSE [kind |-> "point", val |-> InterpolateG2Loop(points, points_x, x_new, Len(points_x))]

RECURSIVE InterpolateScalarsLoop(_, _, _, _)
InterpolateScalarsLoop(points, points_x, x_new, i) ==
    IF i = 0 THEN 0
    ELSE LET y_i == points[points_x[i]]
             basis_val == lagrange_basis(points_x, i, x_new, FIELD_ORDER).val
             term == (y_i * basis_val) % FIELD_ORDER
         IN  (InterpolateScalarsLoop(points, points_x, x_new, i - 1) + term) % FIELD_ORDER

interpolate_scalars(points, x_new) ==
    LET points_x == SortedKeys(DOMAIN points)
    IN  IF BasisRaises(points_x, x_new) THEN ValueError
        ELSE [kind |-> "int", val |-> InterpolateScalarsLoop(points, points_x, x_new, Len(points_x))]

RECURSIVE InterpolatePolynomialLoop(_, _, _, _, _)
InterpolatePolynomialLoop(points_x, points_y, x, field_order, i) ==
    IF i = 0 THEN 0
    ELSE LET y_i == points_y[i]
             basis_val == lagrange_basis(points_x, i, x, field_order).val
             term == (y_i * basis_val) % field_order
         IN  (InterpolatePolynomialLoop(points_x, points_y, x, field_order, i - 1) + term)
                 % field_order

\* interpolate_polynomial(points, x, field_order) on a list of (x, y) pairs.
interpolate_polynomial(points, x, field_order) ==
    IF points = <<>> THEN ValueError
    ELSE LET points_x == [k \in 1 .. Len(points) |-> points[k][1]]
             points_y == [k \in 1 .. Len(points) |-> points[k][2]]
         IN  IF \E i \in 1 .. Len(points) : Raised(lagrange_basis(points_x, i, x, field_order))
             THEN ValueError
             ELSE [kind |-> "int",
                   val |-> InterpolatePolynomialLoop(points_x, points_y, x, field_order,
                                                     Len(points))]


\* ---------------------------------------------------------------- BBS+ core

\* hash_to_G1("seed_for_h_i", DST): a fixed point for every index i, none of
\* them the point at infinity.
hash_to_G1(i) == ((3 * i + 2) % (FIELD_ORDER - 1)) + 1

\* generate_h_vector(length): [H_0, ..., H_length].
generate_h_vector(length) == [k \in 1 .. (length + 1) |-> hash_to_G1(k - 1)]

\* H[i] and messages[i] of the code, which count from 0.
At(seq, i) == seq[i + 1]

RECURSIVE CommitLoop(_, _, _, _)
\* for i, m in enumerate(messages): acc = add(acc, multiply(H[i+1], m)),
\* for the first k messages.
CommitLoop(H, messages, acc, k) ==
    IF k = 0 THEN acc
    ELSE add(CommitLoop(H, messages, acc, k - 1),
             multiply(At(H, k), At(messages, k - 1)))

\* G1 + s*H[0] + sum_i m_i*H[i+1]: the numerator of sign, RHS of verify,
\* B of create_proof and of generate_shares.
Commitment(H, s, messages) ==
    CommitLoop(H, messages, add(G1_GENERATOR, multiply(At(H, 0), s)), Len(messages))

\* H[0] or some H[i+1] of the loop does not exist.
CommitmentIndexError(H, messages) == Len(H) = 0 \/ Len(messages) > Len(H) - 1

\* sign with the nonce e left out of the denominator.
sign_without_e(H, x, messages, e, s) ==
    IF CommitmentIndexError(H, messages) THEN IndexError
    ELSE LET numerator == Commitment(H, s, messages)
             denom_inv == modular_inverse(x % FIELD_ORDER, FIELD_ORDER)
         IN  IF Raised(denom_inv) THEN ValueError
             ELSE [kind |-> "signature", A |-> multiply(numerator, denom_inv.val),
                   e |-> e, s |-> s]

\* BBSPlus.sign((H, x), messages) with the nonces e and s it samples.
sign(H, x, messages, e, s) ==
    IF CommitmentIndexError(H, messages) THEN IndexError
    ELSE LET numerator == Commitment(H, s, messages)
             denom_inv == modular_inverse((x + e) % FIELD_ORDER, FIELD_ORDER)
         IN  IF Raised(denom_inv) THEN ValueError
             ELSE [kind |-> "signature", A |-> multiply(numerator, denom_inv.val),
                   e |-> e, s |-> s]

\* verify with s left out of the right-hand side.
verify_without_s(H, X, messages, sig) ==
    IF CommitmentIndexError(H, messages) THEN IndexError
    ELSE LET RHS == Commitment(H, 0, messages)
             lhs == pairing(add(X, multiply(G2_GENERATOR, sig.e)), sig.A)
             rhs == pairing(G2_GENERATOR, RHS)
         IN  Bool(lhs = rhs)

\* BBSPlus.verify((H, X), messages, (A, e, s)).
verify(H, X, messages, sig) ==
    IF CommitmentIndexError(H, messages) THEN IndexError
    ELSE LET RHS == Commitment(H, sig.s, messages)
             lhs == pairing(add(X, multiply(G2_GENERATOR, sig.e)), sig.A)
             rhs == pairing(G2_GENERATOR, RHS)
         IN  Bool(lhs = rhs)

\* SHA-256 over the serialized points and the nonce, as an integer: a fixed
\* mixing of its input, one element after the other.
RECURSIVE Sha256(_, _)
Sha256(input, k) ==
    IF k = 0 THEN 7
    ELSE LET h == Sha256(input, k - 1)
             v == input[k]
         IN  (h * 31 + (v + 1) * (v + h + 2)) % 257

\* The Fiat-Shamir challenge of create_proof and verify_proof.
FiatShamir(A_bar, B_bar, D, T1, T2, nonce) ==
    Sha256(<<A_bar, B_bar, D, T1, T2, nonce>>, 6) % FIELD_ORDER

RECURSIVE SumOver(_, _, _)
\* The sum in G1 of multiply(H[j+1], f[j]) over the indices j of idx, added
\* to acc in the order of idx.
SumOver(H, f, idx) ==
    IF idx = <<>> THEN G1_INFINITY
    ELSE add(multiply(At(H, idx[Len(idx)] + 1), f[idx[Len(idx)]]),
             SumOver(H, f, SubSeq(idx, 1, Len(idx) - 1)))

\* hidden = [i for i in range(l) if i not in revealed_set]
Hidden(l, revealed_indices) == (0 .. (l - 1)) \ revealed_indices

\* create_proof with r3_t sampled but left out of T2 and resp_r3.
create_proof_without_r3_t(H, sig, messages, revealed_indices, nonce, r1, r2, e_t, r1_t, r3_t, m_t) ==
    LET l == Len(messages)
        B == Commitment(H, sig.s, messages)
        A_bar == multiply(sig.A, (r1 * r2) % FIELD_ORDER)
        D == multiply(B, r2)
        B_bar == add(multiply(D, r1), multiply(A_bar, sig.e))
        hidden == Hidden(l, revealed_indices)
        T1 == add(multiply(A_bar, e_t), multiply(D, r1_t))
        hidden_commit == SumOver(H, m_t, SortedKeys(hidden))
        T2 == hidden_commit
        c == FiatShamir(A_bar, B_bar, D, T1, T2, nonce)
    IN  [kind |-> "proof",
         A_bar |-> A_bar, B_bar |-> B_bar, D |-> D, T1 |-> T1, T2 |-> T2, c |-> c,
         resp_e |-> (e_t + c * sig.e) % FIELD_ORDER,
         resp_r1 |-> (r1_t + c * r1) % FIELD_ORDER,
         resp_r3 |-> (c * sig.s) % FIELD_ORDER,
         resp_m |-> [j \in hidden |-> (m_t[j] + c * At(messages, j)) % FIELD_ORDER],
         revealed |-> [i \in revealed_indices |-> At(messages, i)]]

\* BBSPlus.create_proof with the scalars it samples: r1, r2, e_t, r1_t, r3_t
\* and m_t, a function on the hidden indices.
create_proof(H, sig, messages, revealed_indices, nonce, r1, r2, e_t, r1_t, r3_t, m_t) ==
    LET l == Len(messages)
        B == Commitment(H, sig.s, messages)
        A_bar == multiply(sig.A, (r1 * r2) % FIELD_ORDER)
        D == multiply(B, r2)
        B_bar == add(multiply(D, r1), multiply(A_bar, sig.e))
        hidden == Hidden(l, revealed_indices)
        T1 == add(multiply(A_bar, e_t), multiply(D, r1_t))
        hidden_commit == SumOver(H, m_t, SortedKeys(hidden))
        T2 == add(multiply(At(H, 0), r3_t), hidden_commit)
        c == FiatShamir(A_bar, B_bar, D, T1, T2, nonce)
    IN  [kind |-> "proof",
         A_bar |-> A_bar, B_bar |-> B_bar, D |-> D, T1 |-> T1, T2 |-> T2, c |-> c,
         resp_e |-> (e_t + c * sig.e) % FIELD_ORDER,
         resp_r1 |-> (r1_t + c * r1) % FIELD_ORDER,
         resp_r3 |-> (r3_t + c * sig.s) % FIELD_ORDER,
         resp_m |-> [j \in hidden |-> (m_t[j] + c * At(messages, j)) % FIELD_ORDER],
         revealed |-> [i \in revealed_indices |-> At(messages, i)]]

\* H[j+1] of a loop over the keys of resp_m or of revealed does not exist.
ProofIndexError(H, f) == \E j \in DOMAIN f : j + 1 >= Len(H)

\* The challenge compared under any nonce at all.
ChallengeOk_any_nonce(proof, nonce) ==
    \E N \in 0 .. MaxNonce :
        FiatShamir(proof.A_bar, proof.B_bar, proof.D, proof.T1, proof.T2, N) = proof.c

\* The four checks of verify_proof, in the order of the code.
ChallengeOk(proof, nonce) ==
    FiatShamir(proof.A_bar, proof.B_bar, proof.D, proof.T1, proof.T2, nonce) = proof.c

T1Ok(proof) ==
    add(multiply(proof.A_bar, proof.resp_e), multiply(proof.D, proof.resp_r1))
        = add(proof.T1, multiply(proof.B_bar, proof.c))

T2Ok(H, proof) ==
    add(multiply(proof.D, proof.resp_r3),
        SumOver(H, proof.resp_m, SortedKeys(DOMAIN proof.resp_m))) = proof.T2

PairingOk(H, X, proof) ==
    LET full_rhs ==
            add(add(add(G1_GENERATOR, multiply(At(H, 0), proof.resp_r1)),
                    SumOver(H, proof.revealed, SortedKeys(DOMAIN proof.revealed))),
                SumOver(H, proof.resp_m, SortedKeys(DOMAIN proof.resp_m)))
    IN  pairing(add(X, multiply(G2_GENERATOR, proof.resp_e)), proof.A_bar)
            = pairing(G2_GENERATOR, full_rhs)

\* BBSPlus.verify_proof((H, X), proof, nonce): the outcomes it can have.
\* The loops of lines 192-193 and 204-207 raise IndexError on a key of
\* resp_m or of revealed that has no H[j+1].
\* Lines 208-209 call pairing(A_bar, X + resp_e*G2) and pairing(full_rhs, G2)
\* with the G1 point where py_ecc's pairing(Q, P) takes the G2 point: the
\* library either raises on the mistyped point (its is_on_curve(Q, b2)
\* compares an FQ with an FQ2) or pairs the two points.
verify_proof(H, X, proof, nonce) ==
    IF ~ChallengeOk(proof, nonce) THEN {Bool(FALSE)}
    ELSE IF ~T1Ok(proof) THEN {Bool(FALSE)}
    ELSE IF ProofIndexError(H, proof.resp_m) THEN {IndexError}
    ELSE IF ~T2Ok(H, proof) THEN {Bool(FALSE)}
    ELSE IF ProofIndexError(H, proof.revealed) THEN {IndexError}
    ELSE {TypeError, Bool(PairingOk(H, X, proof))}

\* ------------------------------------------------------ distributed signer

\* server_ids[:-1] and server_ids[-1], server_ids being sorted.
LastServer(server_ids) == server_ids[Len(server_ids)]

AllButLast(server_ids) == {server_ids[k] : k \in 1 .. (Len(server_ids) - 1)}

\* The sum stopped after the first value.
SumValues_first(d, ids) == IF ids = <<>> THEN 0 ELSE d[Head(ids)]

RECURSIVE SumValues(_, _)
\* sum(d.values()) over the keys listed in ids.
SumValues(d, ids) ==
    IF ids = <<>> THEN 0 ELSE d[Head(ids)] + SumValues(d, Tail(ids))

\* _simulate_zero_shares: the mask of every server, from the draws of all
\* but the last one.
ZeroShares(server_ids, draws) ==
    LET free == SubSeq(server_ids, 1, Len(server_ids) - 1)
        mask_sum == SumValues(draws, free) % FIELD_ORDER
    IN  [i \in {server_ids[k] : k \in 1 .. Len(server_ids)} |->
            IF i = LastServer(server_ids)
            THEN (FIELD_ORDER - mask_sum) % FIELD_ORDER
            ELSE draws[i]]

\* The ordered pairs (i, j), i # j, of the double loop of lines 67-76.
ServerPairs(ids) == {p \in ids \X ids : p[1] # p[2]}

\* d_shares[j][i] of line 76, stored under j: the product of server i's
\* masked share and server j's masked nonce, less c_shares[i][j].
DShare(servers, alphas, betas, r_nonces, c_shares, j, i) ==
    LET val_i == (servers[i] + alphas[i]) % FIELD_ORDER
        val_j == (r_nonces[j] + betas[j]) % FIELD_ORDER
        product == (val_i * val_j) % FIELD_ORDER
    IN  (product - c_shares[<<i, j>>]) % FIELD_ORDER

RECURSIVE SumOfMulShares_sent(_, _, _, _, _, _, _)
\* sum_of_mul_shares with d_shares[j][i], the value server i sent to j, in
\* the place of d_shares[i][j].
SumOfMulShares_sent(servers, alphas, betas, r_nonces, c_shares, i, js) ==
    IF js = <<>> THEN 0
    ELSE LET j == js[Len(js)]
             before == SumOfMulShares_sent(servers, alphas, betas, r_nonces, c_shares, i,
                                           SubSeq(js, 1, Len(js) - 1))
         IN  IF i = j THEN before
             ELSE (before + c_shares[<<i, j>>]
                   + DShare(servers, alphas, betas, r_nonces, c_shares, j, i)) % FIELD_ORDER

RECURSIVE SumOfMulShares(_, _, _, _, _, _, _)
\* sum_of_mul_shares of lines 83-88 for server i, over the servers listed in js.
SumOfMulShares(servers, alphas, betas, r_nonces, c_shares, i, js) ==
    IF js = <<>> THEN 0
    ELSE LET j == js[Len(js)]
             before == SumOfMulShares(servers, alphas, betas, r_nonces, c_shares, i,
                                      SubSeq(js, 1, Len(js) - 1))
         IN  IF i = j THEN before
             ELSE (before + c_shares[<<i, j>>]
                   + DShare(servers, alphas, betas, r_nonces, c_shares, i, j)) % FIELD_ORDER

\* u_i of line 89, before the correction.
ShareU(servers, server_ids, alphas, betas, e_nonces, r_nonces, c_shares, i) ==
    LET term1 == (r_nonces[i] + betas[i]) % FIELD_ORDER
        term2 == (e_nonces[i] + servers[i] + alphas[i]) % FIELD_ORDER
        sum_of_mul_shares ==
            SumOfMulShares(servers, alphas, betas, r_nonces, c_shares, i, server_ids)
    IN  (term1 + term2 + sum_of_mul_shares) % FIELD_ORDER

RECURSIVE SumU_from_second(_)
\* The sum of the u_i without that of shares[0].
SumU_from_second(shares) ==
    IF Len(shares) <= 1 THEN 0
    ELSE shares[Len(shares)].u_i + SumU_from_second(SubSeq(shares, 1, Len(shares) - 1))

RECURSIVE SumU(_)
SumU(shares) == IF shares = <<>> THEN 0 ELSE Head(shares).u_i + SumU(Tail(shares))

\* The correction towards master_secret_x * r_sum, e left out.
Delta_without_e(final_shares, r_nonces, server_ids, master_secret_x, e) ==
    LET actual_u_sum == SumU(final_shares) % FIELD_ORDER
        r_sum == SumValues(r_nonces, server_ids) % FIELD_ORDER
        expected_u_sum == (master_secret_x * r_sum) % FIELD_ORDER
    IN  (expected_u_sum - actual_u_sum + FIELD_ORDER) % FIELD_ORDER

\* generate_shares without the correction of lines 95-99.
Delta_absent(final_shares, r_nonces, server_ids, master_secret_x, e) == 0

\* The correction of lines 95-99, added to final_shares[0].
Delta(final_shares, r_nonces, server_ids, master_secret_x, e) ==
    LET actual_u_sum == SumU(final_shares) % FIELD_ORDER
        r_sum == SumValues(r_nonces, server_ids) % FIELD_ORDER
        expected_u_sum == ((master_secret_x + e) * r_sum) % FIELD_ORDER
    IN  (expected_u_sum - actual_u_sum + FIELD_ORDER) % FIELD_ORDER

\* generate_shares with the scalars it samples: the list final_shares.
generate_shares(servers, server_ids, messages, H, master_secret_x, e_nonces, s_nonces, r_nonces, alpha_draws, beta_draws, c_shares) ==
    LET alphas == ZeroShares(server_ids, alpha_draws)
        betas == ZeroShares(server_ids, beta_draws)
        e == SumValues(e_nonces, server_ids) % FIELD_ORDER
        s == SumValues(s_nonces, server_ids) % FIELD_ORDER
        B == Commitment(H, s, messages)
        final_shares ==
            [k \in 1 .. Len(server_ids) |->
                LET i == server_ids[k]
                IN  [server_id |-> i, e |-> e, s |-> s,
                     R_i |-> multiply(B, r_nonces[i]),
                     u_i |-> ShareU(servers, server_ids, alphas, betas, e_nonces,
                                    r_nonces, c_shares, i)]]
        delta == Delta(final_shares, r_nonces, server_ids, master_secret_x, e)
    IN  [final_shares EXCEPT ![1].u_i = (final_shares[1].u_i + delta) % FIELD_ORDER]

\* ------------------------------------------------------------ reconstructor

Inconsistent == [kind |-> "ValueError", msg |-> "Signature fragments are inconsistent!"]

ZeroUSum == [kind |-> "ValueError", msg |-> "The sum of u_i is 0"]

\* The loop of lines 38-44 comparing e alone.
FragmentsDiffer_e_only(shares) ==
    \E k \in 2 .. Len(shares) : shares[k].e # shares[1].e

\* The loop of lines 38-44 finds a share whose e or s is not that of shares[0].
FragmentsDiffer(shares) ==
    \E k \in 2 .. Len(shares) : shares[k].e # shares[1].e \/ shares[k].s # shares[1].s

RECURSIVE SumR_from_generator(_)
\* R_sum begun at G1_GENERATOR instead of G1_INFINITY.
SumR_from_generator(shares) ==
    IF shares = <<>> THEN G1_GENERATOR
    ELSE add(SumR_from_generator(SubSeq(shares, 1, Len(shares) - 1)),
             shares[Len(shares)].R_i)

RECURSIVE SumR(_)
\* R_sum of lines 48-50, from G1_INFINITY.
SumR(shares) ==
    IF shares = <<>> THEN G1_INFINITY
    ELSE add(SumR(SubSeq(shares, 1, Len(shares) - 1)), shares[Len(shares)].R_i)

\* The reconstruction multiplying R_sum by u_sum instead of its inverse.
reconstruct_signature_without_inverse(shares) ==
    IF shares = <<>> THEN IndexError
    ELSE IF FragmentsDiffer(shares) THEN Inconsistent
    ELSE LET R_sum == SumR(shares)
             u_sum == SumU(shares) % FIELD_ORDER
         IN  IF u_sum = 0 THEN ZeroUSum
             ELSE [kind |-> "FinalSignature", A |-> multiply(R_sum, u_sum),
                   e |-> shares[1].e, s |-> shares[1].s]

\* reconstruct_signature(shares, field_order, g1_generator).
reconstruct_signature(shares) ==
    IF shares = <<>> THEN IndexError
    ELSE IF FragmentsDiffer(shares) THEN Inconsistent
    ELSE LET R_sum == SumR(shares)
             u_sum == SumU(shares) % FIELD_ORDER
         IN  IF u_sum = 0 THEN ZeroUSum
             ELSE [kind |-> "FinalSignature",
                   A |-> multiply(R_sum, modular_inverse(u_sum, FIELD_ORDER).val),
                   e |-> shares[1].e, s |-> shares[1].s]

\* ------------------------------------------------------------- DKG: state

VARIABLES
    ctor_n,                     \* the constructor call's arguments
    ctor_t,
    dkg_pc,                     \* the position of the DKG object and of run_protocol
    dkg_n,                      \* self.n, self.t (0 until constructed)
    dkg_t,
    server_polynomials,         \* locals of run_protocol
    points_received_by_server,
    private_shares,
    public_shares,
    master_public_key,
    dkg_result,                 \* what run_protocol returned: (private_shares, X)
    tamper,                     \* the call of _perform_consistency_check on altered shares
    H,                          \* the H-vector and the messages in use
    messages,
    bbs_pc,                     \* the position of the holder's BBS+ workflow
    sk_x,                       \* the monolithic secret key x
    signature,                  \* what BBSPlus.sign returned or raised
    verified,                   \* what BBSPlus.verify returned
    proof,                      \* what create_proof returned, and the nonce given to it
    proof_nonce,
    verify_nonce,               \* the nonce given to verify_proof, and its outcome
    proof_result,
    sign_pc,                    \* the position of the signing session
    servers,                    \* fields of the DistributedSigningProtocol object
    servers_keys,               \* list(self.servers.keys()): the keys in insertion order
    server_ids,
    sign_t,
    master_secret_x,
    session,                    \* the locals of a running generate_shares call
    signature_shares,           \* the share list: generate_shares' output, reconstruct's input
    aux,                        \* the second value generate_shares returns
    final_signature,            \* what reconstruct_signature returned or raised
    final_valid,                \* BBSPlus.verify of the reconstructed signature
    tampered,                   \* a proof altered in one component, and verify_proof's outcome on it
    unlink,                     \* two create_proof calls on the same inputs, compared
    call,                       \* a direct call of a library function: its name and arguments
    ret                         \* what that call returned or raised

dkg_vars == <<ctor_n, ctor_t, dkg_pc, dkg_n, dkg_t, server_polynomials,
              points_received_by_server, private_shares, public_shares,
              master_public_key, dkg_result, tamper>>

msg_vars == <<H, messages>>

bbs_vars == <<bbs_pc, sk_x, signature, verified, proof, proof_nonce, verify_nonce,
              proof_result>>

sign_vars == <<sign_pc, servers, servers_keys, server_ids, sign_t, master_secret_x,
               session, signature_shares, aux, final_signature, final_valid>>

ext_vars == <<tampered, unlink, call, ret>>

vars == <<dkg_vars, msg_vars, bbs_vars, sign_vars, ext_vars>>

None == [kind |-> "none"]

NoResult == None

NoTamper == None

\* -------------------------------------------------------- DKG: operations

RECURSIVE SumSeq(_)
SumSeq(s) == IF s = <<>> THEN 0 ELSE Head(s) + SumSeq(Tail(s))

\* The private share left unreduced.
PrivateShareOf_unreduced(received) == SumSeq(received)

\* The private share summed without the last evaluation received.
PrivateShareOf_but_last(received) ==
    SumSeq(SubSeq(received, 1, Len(received) - 1)) % FIELD_ORDER

\* sum(points_received_by_server[i]) % field_order
PrivateShareOf(received) == SumSeq(received) % FIELD_ORDER

\* The consistency check with its loop begun one share too late.
ConsistencyCheckRaises_late(n, t, shares) ==
    IF n < t THEN FALSE
    ELSE LET sample_points == [i \in 1 .. t |-> shares[i]]
         IN  \E i \in (t + 2) .. n :
                 LET interpolated_point == interpolate_g2_points(sample_points, i)
                 IN  \/ Raised(interpolated_point)
                     \/ interpolated_point.val # shares[i]

\* _perform_consistency_check(public_shares) of an object with fields n, t:
\* TRUE when it raises ValueError, FALSE when it returns.
ConsistencyCheckRaises(n, t, shares) ==
    IF n < t THEN FALSE
    ELSE LET sample_points == [i \in 1 .. t |-> shares[i]]
         IN  \E i \in (t + 1) .. n :
                 LET interpolated_point == interpolate_g2_points(sample_points, i)
                 IN  \/ Raised(interpolated_point)
                     \/ interpolated_point.val # shares[i]

\* The master public key taken to be the first public share.
CalculateMasterPublicKey_first_share(t, shares) ==
    IF t = 0 THEN [kind |-> "point", val |-> G2_INFINITY]
    ELSE [kind |-> "point", val |-> shares[1]]

\* The master public key interpolated at 1 instead of 0.
CalculateMasterPublicKey_at_1(t, shares) ==
    interpolate_g2_points([i \in 1 .. t |-> shares[i]], 1)

\* _calculate_master_public_key(public_shares)
CalculateMasterPublicKey(t, shares) ==
    interpolate_g2_points([i \in 1 .. t |-> shares[i]], 0)

\* The guard of __init__ written t >= n.
ThresholdTooHigh_or_equal(n, t) == t >= n

\* DistributedKeyGenerator(n, t, ...): __init__.
ThresholdTooHigh(n, t) == t > n

Construct(n, t) ==
    /\ dkg_pc = "new"
    /\ ctor_n' = n
    /\ ctor_t' = t
    /\ IF ThresholdTooHigh(n, t)
       THEN /\ dkg_pc' = "ctor_ValueError"
            /\ UNCHANGED <<dkg_n, dkg_t>>
       ELSE /\ dkg_pc' = "constructed"
            /\ dkg_n' = n
            /\ dkg_t' = t
    /\ UNCHANGED <<server_polynomials, points_received_by_server, private_shares,
                   public_shares, master_public_key, dkg_result, tamper>>
    /\ UNCHANGED <<msg_vars, bbs_vars, sign_vars, ext_vars>>

\* run_protocol, lines 28-31: every party samples its polynomial.
Sample ==
    /\ dkg_pc = "constructed"
    /\ server_polynomials' \in
           [1 .. dkg_n -> create_random_polynomial(dkg_t - 1, FIELD_ORDER)]
    /\ dkg_pc' = "sampled"
    /\ UNCHANGED <<ctor_n, ctor_t, dkg_n, dkg_t, points_received_by_server,
                   private_shares, public_shares, master_public_key, dkg_result, tamper>>
    /\ UNCHANGED <<msg_vars, bbs_vars, sign_vars, ext_vars>>

\* run_protocol, lines 34-39: party i sends p_i(j) to party j, for i = 1..n in turn.
Exchange ==
    /\ dkg_pc = "sampled"
    /\ points_received_by_server' =
           [j \in 1 .. dkg_n |->
               [i \in 1 .. dkg_n |->
                   evaluate_polynomial(server_polynomials[i], j, FIELD_ORDER)]]
    /\ dkg_pc' = "exchanged"
    /\ UNCHANGED <<ctor_n, ctor_t, dkg_n, dkg_t, server_polynomials,
                   private_shares, public_shares, master_public_key, dkg_result, tamper>>
    /\ UNCHANGED <<msg_vars, bbs_vars, sign_vars, ext_vars>>

\* run_protocol, lines 44-49: the private and the public share of every party.
Publish ==
    /\ dkg_pc = "exchanged"
    /\ private_shares' =
           [i \in 1 .. dkg_n |-> PrivateShareOf(points_received_by_server[i])]
    /\ public_shares' =
           [i \in 1 .. dkg_n |->
               multiply(G2_GENERATOR, PrivateShareOf(points_received_by_server[i]))]
    /\ dkg_pc' = "published"
    /\ UNCHANGED <<ctor_n, ctor_t, dkg_n, dkg_t, server_polynomials,
                   points_received_by_server, master_public_key, dkg_result, tamper>>
    /\ UNCHANGED <<msg_vars, bbs_vars, sign_vars, ext_vars>>

\* run_protocol, line 52: the consistency check; its ValueError ends the call,
\* and the locals die with it.
Check ==
    /\ dkg_pc = "published"
    /\ IF ConsistencyCheckRaises(dkg_n, dkg_t, public_shares)
       THEN /\ dkg_pc' = "InconsistentDKG"
            /\ server_polynomials' = EmptyDict
            /\ points_received_by_server' = EmptyDict
            /\ private_shares' = EmptyDict
            /\ public_shares' = EmptyDict
       ELSE /\ dkg_pc' = "checked"
            /\ UNCHANGED <<server_polynomials, points_received_by_server,
                           private_shares, public_shares>>
    /\ UNCHANGED <<ctor_n, ctor_t, dkg_n, dkg_t, master_public_key, dkg_result, tamper>>
    /\ UNCHANGED <<msg_vars, bbs_vars, sign_vars, ext_vars>>

\* run_protocol, lines 56-58: the master public key, and the return.
KeyAndReturn ==
    /\ dkg_pc = "checked"
    /\ LET X == CalculateMasterPublicKey(dkg_t, public_shares)
       IN  IF Raised(X)
           THEN /\ dkg_pc' = "run_ValueError"
                /\ UNCHANGED <<master_public_key, dkg_result>>
           ELSE /\ dkg_pc' = "returned"
                /\ master_public_key' = X.val
                /\ dkg_result' = [kind |-> "result", private_shares |-> private_shares,
                                  master_public_key |-> X.val]
    /\ server_polynomials' = EmptyDict
    /\ points_received_by_server' = EmptyDict
    /\ private_shares' = EmptyDict
    /\ public_shares' = EmptyDict
    /\ UNCHANGED <<ctor_n, ctor_t, dkg_n, dkg_t, tamper>>
    /\ UNCHANGED <<msg_vars, bbs_vars, sign_vars, ext_vars>>

\* test_consistency_check_failure: the public shares of the run, one of them
\* replaced by another G2 point, given to _perform_consistency_check.
TamperCheck(k, P) ==
    /\ dkg_pc = "returned"
    /\ tamper = NoTamper
    /\ k \in 1 .. dkg_n
    /\ LET honest == [i \in 1 .. dkg_n |->
                         multiply(G2_GENERATOR, dkg_result.private_shares[i])]
           altered == [honest EXCEPT ![k] = P]
       IN  /\ P # honest[k]
           /\ tamper' = [kind |-> "checked", k |-> k,
                         raised |-> ConsistencyCheckRaises(dkg_n, dkg_t, altered)]
    /\ UNCHANGED <<ctor_n, ctor_t, dkg_pc, dkg_n, dkg_t, server_polynomials,
                   points_received_by_server, private_shares, public_shares,
                   master_public_key, dkg_result>>
    /\ UNCHANGED <<msg_vars, bbs_vars, sign_vars, ext_vars>>

\* The DKG part of an initial state: no object yet.
InitDKGVars ==
    /\ ctor_n = 0
    /\ ctor_t = 0
    /\ dkg_pc = "new"
    /\ dkg_n = 0
    /\ dkg_t = 0
    /\ server_polynomials = EmptyDict
    /\ points_received_by_server = EmptyDict
    /\ private_shares = EmptyDict
    /\ public_shares = EmptyDict
    /\ master_public_key = G2_INFINITY
    /\ dkg_result = NoResult
    /\ tamper = NoTamper

\* ------------------------------------------------------- BBS+ core: actions

\* The message vectors explored: 1..MaxL messages, each in 0..MaxMsg.
MessageVectors == UNION {[1 .. l -> 0 .. MaxMsg] : l \in 1 .. MaxL}

Nonces == 0 .. MaxNonce

InitBBSVars ==
    /\ bbs_pc = "idle"
    /\ sk_x = 0
    /\ signature = None
    /\ verified = None
    /\ proof = None
    /\ proof_nonce = 0
    /\ verify_nonce = 0
    /\ proof_result = None

InitMsgVars ==
    /\ H = <<>>
    /\ messages = <<>>

\* The holder's setup: a secret key, a message vector and its H-vector.
Setup(x, msgs) ==
    /\ bbs_pc = "idle"
    /\ sk_x' = x
    /\ messages' = msgs
    /\ H' = generate_h_vector(Len(msgs))
    /\ bbs_pc' = "ready"
    /\ UNCHANGED <<signature, verified, proof, proof_nonce, verify_nonce, proof_result>>
    /\ UNCHANGED <<dkg_vars, sign_vars, ext_vars>>

\* BBSPlus.sign(sk, messages): e and s are the nonces it samples.
Sign ==
    /\ bbs_pc = "ready"
    /\ \E e \in randbelow(FIELD_ORDER), s \in randbelow(FIELD_ORDER) :
           signature' = sign(H, sk_x, messages, e, s)
    /\ bbs_pc' = IF Raised(signature') THEN "sign_raised" ELSE "signed"
    /\ UNCHANGED <<msg_vars, sk_x, verified, proof, proof_nonce, verify_nonce, proof_result>>
    /\ UNCHANGED <<dkg_vars, sign_vars, ext_vars>>

\* BBSPlus.verify(pk, messages, signature) under pk = (H, x*G2).
Verify ==
    /\ bbs_pc = "signed"
    /\ verified' = verify(H, multiply(G2_GENERATOR, sk_x), messages, signature)
    /\ bbs_pc' = "verified"
    /\ UNCHANGED <<msg_vars, sk_x, signature, proof, proof_nonce, verify_nonce, proof_result>>
    /\ UNCHANGED <<dkg_vars, sign_vars, ext_vars>>

\* BBSPlus.create_proof(pk, signature, messages, revealed_indices, nonce) on a
\* signature that verify accepted.
CreateProof(revealed_indices, nonce) ==
    /\ bbs_pc = "verified"
    /\ verified = Bool(TRUE)
    /\ revealed_indices \subseteq 0 .. (Len(messages) - 1)
    /\ \E r1 \in randbelow(FIELD_ORDER), r2 \in randbelow(FIELD_ORDER),
          e_t \in randbelow(FIELD_ORDER), r1_t \in randbelow(FIELD_ORDER),
          r3_t \in randbelow(FIELD_ORDER),
          m_t \in [Hidden(Len(messages), revealed_indices) -> randbelow(FIELD_ORDER)] :
           proof' = create_proof(H, signature, messages, revealed_indices, nonce,
                                 r1, r2, e_t, r1_t, r3_t, m_t)
    /\ proof_nonce' = nonce
    /\ bbs_pc' = "proved"
    /\ UNCHANGED <<msg_vars, sk_x, signature, verified, verify_nonce, proof_result>>
    /\ UNCHANGED <<dkg_vars, sign_vars, ext_vars>>

\* BBSPlus.verify_proof(pk, proof, nonce).
VerifyProof(nonce) ==
    /\ bbs_pc = "proved"
    /\ proof_result' \in verify_proof(H, multiply(G2_GENERATOR, sk_x), proof, nonce)
    /\ verify_nonce' = nonce
    /\ bbs_pc' = "proof_verified"
    /\ UNCHANGED <<msg_vars, sk_x, signature, verified, proof, proof_nonce>>
    /\ UNCHANGED <<dkg_vars, sign_vars, ext_vars>>

\* ------------------------------------------------- signing session: actions

\* The proof with one commitment or response replaced by another value, or
\* with the entry resp_m[index] set to it.
AlteredProof(pf, component, index, value) ==
    IF component = "A_bar" THEN [pf EXCEPT !.A_bar = value]
    ELSE IF component = "B_bar" THEN [pf EXCEPT !.B_bar = value]
    ELSE IF component = "D" THEN [pf EXCEPT !.D = value]
    ELSE IF component = "T1" THEN [pf EXCEPT !.T1 = value]
    ELSE IF component = "T2" THEN [pf EXCEPT !.T2 = value]
    ELSE IF component = "resp_e" THEN [pf EXCEPT !.resp_e = value]
    ELSE IF component = "resp_r1" THEN [pf EXCEPT !.resp_r1 = value]
    ELSE IF component = "resp_r3" THEN [pf EXCEPT !.resp_r3 = value]
    ELSE [pf EXCEPT !.resp_m = [j \in (DOMAIN pf.resp_m) \cup {index} |->
                                    IF j = index THEN value ELSE pf.resp_m[j]]]

ProofCommitments == {"A_bar", "B_bar", "D", "T1", "T2"}

ProofResponses == {"resp_e", "resp_r1", "resp_r3", "resp_m"}

\* BBSPlus.verify_proof(pk, proof', nonce) on a proof' that differs in one
\* component from a proof it accepted under the same pk and nonce.
VerifyProofTampered ==
    /\ bbs_pc = "proof_verified"
    /\ proof_result = Bool(TRUE)
    /\ tampered = None
    /\ \E component \in ProofCommitments \cup ProofResponses, index \in 0 .. MaxL,
          value \in CallerScalars :
           /\ component # "resp_m" => index = 0
           /\ component \in ProofCommitments => value \in G1Points
           /\ LET pf == AlteredProof(proof, component, index, value)
              IN  /\ pf # proof
                  /\ \E outcome \in verify_proof(H, multiply(G2_GENERATOR, sk_x), pf,
                                                 verify_nonce) :
                         tampered' = [kind |-> "verified", component |-> component,
                                      index |-> index, value |-> value, proof |-> pf,
                                      result |-> outcome]
    /\ UNCHANGED <<msg_vars, bbs_vars, unlink, call, ret>>
    /\ UNCHANGED <<dkg_vars, sign_vars>>


\* The scalars one call of create_proof samples.
ProofDraws(hidden) ==
    [r1 : randbelow(FIELD_ORDER), r2 : randbelow(FIELD_ORDER),
     e_t : randbelow(FIELD_ORDER), r1_t : randbelow(FIELD_ORDER),
     r3_t : randbelow(FIELD_ORDER), m_t : [hidden -> randbelow(FIELD_ORDER)]]

\* The default nonce of create_proof, b"default_nonce".
DefaultNonce == 0

\* test_unlinkability, test 1: two calls of create_proof on the same
\* signature, messages and revealed indices, under the default nonce, and the
\* comparison of what they return.
CompareProofs(revealed_indices) ==
    /\ bbs_pc = "verified"
    /\ verified = Bool(TRUE)
    /\ unlink = None
    /\ revealed_indices \subseteq 0 .. (Len(messages) - 1)
    /\ \E a \in ProofDraws(Hidden(Len(messages), revealed_indices)) :
           LET proof_A == create_proof(H, signature, messages, revealed_indices,
                                       DefaultNonce, a.r1, a.r2, a.e_t, a.r1_t, a.r3_t, a.m_t)
           IN  \E b \in ProofDraws(Hidden(Len(messages), revealed_indices)) :
                   LET proof_B == create_proof(H, signature, messages, revealed_indices,
                                               DefaultNonce, b.r1, b.r2, b.e_t, b.r1_t,
                                               b.r3_t, b.m_t)
                   IN  unlink' = [kind |-> "compared", revealed |-> revealed_indices,
                                  same_draws |-> a = b,
                                  r2_zero |-> a.r2 = 0 \/ b.r2 = 0,
                                  identical |-> proof_A = proof_B]
    /\ bbs_pc' = "compared"
    /\ UNCHANGED <<msg_vars, sk_x, signature, verified, proof, proof_nonce, verify_nonce,
                   proof_result, tampered, call, ret>>
    /\ UNCHANGED <<dkg_vars, sign_vars>>


InitSignVars ==
    /\ sign_pc = "idle"
    /\ servers = EmptyDict
    /\ servers_keys = <<>>
    /\ server_ids = <<>>
    /\ sign_t = 0
    /\ master_secret_x = 0
    /\ session = None
    /\ signature_shares = <<>>
    /\ aux = None
    /\ final_signature = None
    /\ final_valid = None

\* DistributedSigningProtocol(signing_servers, messages, h_vector, master_secret_x);
\* keys is list(signing_servers.keys()), the keys in the order of insertion.
ConstructSigning(keys, signing_servers, msgs, h_vector, x) ==
    /\ sign_pc = "idle"
    /\ IF DOMAIN signing_servers = {}
       THEN /\ sign_pc' = "ValueError"
            /\ UNCHANGED <<servers, servers_keys, server_ids, sign_t, master_secret_x,
                           msg_vars>>
       ELSE /\ sign_pc' = "constructed"
            /\ servers' = signing_servers
            /\ servers_keys' = keys
            /\ server_ids' = sorted(keys)
            /\ sign_t' = Len(keys)
            /\ messages' = msgs
            /\ H' = h_vector
            /\ master_secret_x' = x
    /\ UNCHANGED <<session, signature_shares, aux, final_signature, final_valid>>
    /\ UNCHANGED <<dkg_vars, bbs_vars, ext_vars>>

\* test_full_signing_and_verification_flow, lines 36-57: t of the shares of
\* the DKG run, the master secret interpolated from them, and the protocol
\* object made of them.
StartSigning ==
    /\ dkg_pc = "returned"
    /\ sign_pc = "idle"
    /\ dkg_t <= MaxSigners
    /\ \E S \in SUBSET (1 .. dkg_n), msgs \in MessageVectors :
           /\ Cardinality(S) = dkg_t
           /\ LET signing_servers == [i \in S |-> dkg_result.private_shares[i]]
                  x == interpolate_scalars(signing_servers, 0)
              IN  /\ ~Raised(x)
                  /\ ConstructSigning(SortedKeys(S), signing_servers, msgs,
                                      generate_h_vector(Len(msgs)), x.val)

\* generate_shares(): the scalars it samples, and the list it returns.
GenerateShares ==
    /\ sign_pc = "constructed"
    /\ LET ids == DOMAIN servers
           D == randbelow(FIELD_ORDER)
       IN  \E e_nonces \in [ids -> D], s_nonces \in [ids -> D], r_nonces \in [ids -> D],
              alpha_draws \in [AllButLast(server_ids) -> D],
              beta_draws \in [AllButLast(server_ids) -> D],
              c_shares \in [ServerPairs(ids) -> D] :
               signature_shares' =
                   generate_shares(servers, server_ids, messages, H, master_secret_x,
                                   e_nonces, s_nonces, r_nonces, alpha_draws, beta_draws,
                                   c_shares)
    /\ aux' = EmptyDict
    /\ sign_pc' = "generated"
    /\ UNCHANGED <<servers, servers_keys, server_ids, sign_t, master_secret_x, session,
                   msg_vars, final_signature, final_valid>>
    /\ UNCHANGED <<dkg_vars, bbs_vars, ext_vars>>

\* The second value returned leaking the locals of the call.
ReturnedAux_locals(locals) == locals

\* The second value generate_shares returns, line 101: {}.
ReturnedAux(locals) == EmptyDict

\* generate_shares(), lines 52-99: the scalars sampled, the masks, the pairwise
\* values and the share list, as the locals hold them before the return.
\* d_shares[<<j, i>>] is d_shares[j][i].
SessionRun ==
    /\ sign_pc = "constructed"
    /\ LET ids == DOMAIN servers
           D == randbelow(FIELD_ORDER)
       IN  \E e_nonces \in [ids -> D], s_nonces \in [ids -> D], r_nonces \in [ids -> D],
              alpha_draws \in [AllButLast(server_ids) -> D],
              beta_draws \in [AllButLast(server_ids) -> D],
              c_shares \in [ServerPairs(ids) -> D] :
               LET alphas == ZeroShares(server_ids, alpha_draws)
                   betas == ZeroShares(server_ids, beta_draws)
               IN  session' =
                       [kind |-> "generate_shares",
                        e_nonces |-> e_nonces, s_nonces |-> s_nonces, r_nonces |-> r_nonces,
                        alphas |-> alphas, betas |-> betas, c_shares |-> c_shares,
                        d_shares |-> [p \in ServerPairs(ids) |->
                                         DShare(servers, alphas, betas, r_nonces, c_shares,
                                                p[1], p[2])],
                        final_shares |->
                            generate_shares(servers, server_ids, messages, H,
                                            master_secret_x, e_nonces, s_nonces, r_nonces,
                                            alpha_draws, beta_draws, c_shares)]
    /\ sign_pc' = "running"
    /\ UNCHANGED <<servers, servers_keys, server_ids, sign_t, master_secret_x, msg_vars,
                   signature_shares, aux, final_signature, final_valid>>
    /\ UNCHANGED <<dkg_vars, bbs_vars, ext_vars>>

\* generate_shares(), line 101: return final_shares, {}; the locals end with
\* the call.
SessionReturn ==
    /\ sign_pc = "running"
    /\ signature_shares' = session.final_shares
    /\ aux' = ReturnedAux(session)
    /\ session' = None
    /\ sign_pc' = "generated"
    /\ UNCHANGED <<servers, servers_keys, server_ids, sign_t, master_secret_x, msg_vars,
                   final_signature, final_valid>>
    /\ UNCHANGED <<dkg_vars, bbs_vars, ext_vars>>

\* reconstruct_signature(shares, FIELD_ORDER, G1_GENERATOR).
Reconstruct ==
    /\ sign_pc = "generated"
    /\ final_signature' = reconstruct_signature(signature_shares)
    /\ sign_pc' = "reconstructed"
    /\ UNCHANGED <<servers, servers_keys, server_ids, sign_t, master_secret_x, session,
                   msg_vars, signature_shares, aux, final_valid>>
    /\ UNCHANGED <<dkg_vars, bbs_vars, ext_vars>>

\* BBSPlus.verify of the reconstructed signature under the public key X.
VerifyFinal(X) ==
    /\ sign_pc = "reconstructed"
    /\ ~Raised(final_signature)
    /\ final_valid' = verify(H, X, messages, final_signature)
    /\ sign_pc' = "verified"
    /\ UNCHANGED <<servers, servers_keys, server_ids, sign_t, master_secret_x, session,
                   msg_vars, signature_shares, aux, final_signature>>
    /\ UNCHANGED <<dkg_vars, bbs_vars, ext_vars>>

\* A list of signature shares as the tests of the reconstructor build them.
ShareInputs ==
    [server_id : {0}, e : randbelow(FIELD_ORDER), s : randbelow(FIELD_ORDER),
     R_i : {multiply(G1_GENERATOR, k) : k \in randbelow(FIELD_ORDER)}, u_i : Fr]

GivenShares ==
    /\ sign_pc = "idle"
    /\ \E l \in 0 .. MaxShares : \E shares \in [1 .. l -> ShareInputs] :
           signature_shares' = [k \in 1 .. l |-> [shares[k] EXCEPT !.server_id = k]]
    /\ sign_pc' = "generated"
    /\ UNCHANGED <<servers, servers_keys, server_ids, sign_t, master_secret_x, session,
                   msg_vars, aux, final_signature, final_valid>>
    /\ UNCHANGED <<dkg_vars, bbs_vars, ext_vars>>

\* ------------------------------------------------------------ specifications

\* ------------------------------------------------------------ direct calls

\* (messages, signature) with one component replaced: a message, A, e or s.
Altered(msgs, sig, component, index, value) ==
    [messages |-> IF component = "m" THEN [msgs EXCEPT ![index + 1] = value] ELSE msgs,
     signature |-> [kind |-> "signature",
                    A |-> IF component = "A" THEN value ELSE sig.A,
                    e |-> IF component = "e" THEN value ELSE sig.e,
                    s |-> IF component = "s" THEN value ELSE sig.s]]

\* The component of (messages, signature) that Altered replaces.
ComponentOf(msgs, sig, component, index) ==
    IF component = "m" THEN msgs[index + 1]
    ELSE IF component = "A" THEN sig.A
    ELSE IF component = "e" THEN sig.e
    ELSE sig.s

\* test_unforgeability, test 2: BBSPlus.verify on a signature it accepts, and
\* again with one component of the input replaced by another value.
VerifyAltered ==
    /\ call = None
    /\ \E X \in G2Points, msgs \in MessageVectors, A \in G1Points, e \in Fr, s \in Fr :
           LET h_vector == generate_h_vector(Len(msgs))
               sig == [kind |-> "signature", A |-> A, e |-> e, s |-> s]
               is_valid == verify(h_vector, X, msgs, sig)
           IN  /\ is_valid = Bool(TRUE)
               /\ \E component \in {"m", "A", "e", "s"}, index \in 0 .. (MaxL - 1),
                     value \in CallerScalars :
                      /\ IF component = "m" THEN index < Len(msgs) ELSE index = 0
                      /\ component = "A" => value \in G1Points
                      /\ value # ComponentOf(msgs, sig, component, index)
                      /\ LET modified == Altered(msgs, sig, component, index, value)
                         IN  /\ call' = [kind |-> "verify_altered", H |-> h_vector, X |-> X,
                                         messages |-> msgs, signature |-> sig,
                                         component |-> component, index |-> index,
                                         value |-> value]
                             /\ ret' = [is_valid |-> is_valid,
                                        is_valid_modified |->
                                            verify(h_vector, X, modified.messages,
                                                   modified.signature)]
    /\ UNCHANGED <<dkg_vars, msg_vars, bbs_vars, sign_vars, tampered, unlink>>


\* The integers a caller can pass as a coefficient or an evaluation point.
CallerIntegers == -1 .. (FIELD_ORDER + 1)

\* evaluate_polynomial(coeffs, x, FIELD_ORDER) on a list of the caller's.
CallEvaluate ==
    /\ call = None
    /\ \E d \in 0 .. MaxCoeffs : \E coeffs \in [1 .. d -> CallerIntegers], x \in CallerIntegers :
           /\ call' = [kind |-> "evaluate_polynomial", coeffs |-> coeffs, x |-> x]
           /\ ret' = [kind |-> "int", val |-> evaluate_polynomial(coeffs, x, FIELD_ORDER)]
    /\ UNCHANGED <<dkg_vars, msg_vars, bbs_vars, sign_vars, tampered, unlink>>


\* The H-vectors and message lists a caller can pair, of matching lengths or
\* not.
CallerHVectors == {<<>>} \cup {generate_h_vector(l) : l \in 0 .. MaxL}

CallerMessages == UNION {[1 .. l -> 0 .. MaxMsg] : l \in 0 .. (MaxL + 1)}

\* BBSPlus.sign((H, x), messages) on an H-vector and a message list of the
\* caller's; the call record keeps the nonces e and s it sampled.
CallSign ==
    /\ call = None
    /\ \E h_vector \in CallerHVectors, x \in CallerScalars, msgs \in CallerMessages,
          e \in randbelow(FIELD_ORDER), s \in randbelow(FIELD_ORDER) :
           /\ call' = [kind |-> "sign", H |-> h_vector, x |-> x, messages |-> msgs,
                       e |-> e, s |-> s]
           /\ ret' = sign(h_vector, x, msgs, e, s)
    /\ UNCHANGED <<dkg_vars, msg_vars, bbs_vars, sign_vars, tampered, unlink>>

\* BBSPlus.verify((H, X), messages, (A, e, s)) on inputs of the caller's.
CallVerify ==
    /\ call = None
    /\ \E h_vector \in CallerHVectors, X \in G2Points, msgs \in CallerMessages,
          A \in G1Points, e \in Fr, s \in Fr :
           LET sig == [kind |-> "signature", A |-> A, e |-> e, s |-> s]
           IN  /\ call' = [kind |-> "verify", H |-> h_vector, X |-> X, messages |-> msgs,
                           signature |-> sig]
               /\ ret' = verify(h_vector, X, msgs, sig)
    /\ UNCHANGED <<dkg_vars, msg_vars, bbs_vars, sign_vars, tampered, unlink>>


\* The sample points a caller can give to an interpolation: a dict over some
\* of the x-coordinates 1..MaxN, or none at all.
CallerPoints(values) == UNION {[S -> values] : S \in SUBSET (1 .. MaxN)}

\* interpolate_scalars(points, x_new).
CallInterpolateScalars ==
    /\ call = None
    /\ \E points \in CallerPoints(Fr), x_new \in 0 .. MaxN :
           /\ call' = [kind |-> "interpolate_scalars", points |-> points, x |-> x_new]
           /\ ret' = interpolate_scalars(points, x_new)
    /\ UNCHANGED <<dkg_vars, msg_vars, bbs_vars, sign_vars, tampered, unlink>>

\* interpolate_g2_points(points, x_new).
CallInterpolateG2 ==
    /\ call = None
    /\ \E points \in CallerPoints(G2Points), x_new \in 0 .. MaxN :
           /\ call' = [kind |-> "interpolate_g2_points", points |-> points, x |-> x_new]
           /\ ret' = interpolate_g2_points(points, x_new)
    /\ UNCHANGED <<dkg_vars, msg_vars, bbs_vars, sign_vars, tampered, unlink>>

\* interpolate_polynomial(points, x, FIELD_ORDER) on the list of the pairs of
\* a dict, in ascending order of x.
CallInterpolatePolynomial ==
    /\ call = None
    /\ \E d \in CallerPoints(Fr), x \in 0 .. MaxN :
           LET keys == SortedKeys(DOMAIN d)
               points == [k \in 1 .. Len(keys) |-> <<keys[k], d[keys[k]]>>]
           IN  /\ call' = [kind |-> "interpolate_polynomial", points |-> points, x |-> x]
               /\ ret' = interpolate_polynomial(points, x, FIELD_ORDER)
    /\ UNCHANGED <<dkg_vars, msg_vars, bbs_vars, sign_vars, tampered, unlink>>


InitExtVars ==
    /\ tampered = None
    /\ unlink = None
    /\ call = None
    /\ ret = None

InitAll == InitDKGVars /\ InitMsgVars /\ InitBBSVars /\ InitSignVars /\ InitExtVars

\* Distributed key generation, and the consistency check on altered shares.
InitDKG == InitAll

NextDKG ==
    \/ \E n \in 0 .. MaxN, t \in 0 .. (MaxN + 1) : Construct(n, t)
    \/ Sample
    \/ Exchange
    \/ Publish
    \/ Check
    \/ KeyAndReturn
    \/ \E k \in 1 .. MaxN, P \in Fr : TamperCheck(k, P)

SpecDKG == InitDKG /\ [][NextDKG]_vars

\* The BBS+ core: sign, verify, create_proof, verify_proof.
InitBBS == InitAll

NextBBS ==
    \/ \E x \in Fr, msgs \in MessageVectors : Setup(x, msgs)
    \/ Sign
    \/ Verify
    \/ \E R \in SUBSET (0 .. (MaxL - 1)), nonce \in Nonces : CreateProof(R, nonce)
    \/ \E nonce \in Nonces : VerifyProof(nonce)
    \/ VerifyProofTampered

SpecBBS == InitBBS /\ [][NextBBS]_vars

\* The holder making two proofs of one signature.
InitUnlink == InitAll

NextUnlink ==
    \/ \E x \in Fr, msgs \in MessageVectors : Setup(x, msgs)
    \/ Sign
    \/ Verify
    \/ \E R \in SUBSET (0 .. (MaxL - 1)) : CompareProofs(R)

SpecUnlink == InitUnlink /\ [][NextUnlink]_vars

\* The reconstructor on share lists of any content.
InitRecon == InitAll

NextRecon ==
    \/ GivenShares
    \/ Reconstruct

SpecRecon == InitRecon /\ [][NextRecon]_vars

\* The whole pipeline: DKG, t of its shares, distributed signing,
\* reconstruction, verification under the DKG's master public key.
InitPipeline == InitAll

NextPipeline ==
    \/ \E n \in 0 .. MaxN, t \in 0 .. (MaxN + 1) : Construct(n, t)
    \/ Sample
    \/ Exchange
    \/ Publish
    \/ Check
    \/ KeyAndReturn
    \/ StartSigning
    \/ GenerateShares
    \/ Reconstruct
    \/ VerifyFinal(dkg_result.master_public_key)

SpecPipeline == InitPipeline /\ [][NextPipeline]_vars

\* The sets of servers a signing session is made of, none included, and the
\* orders in which a caller can insert the keys of one.
SignerSets == {S \in SUBSET (1 .. MaxN) : Cardinality(S) <= MaxSigners}

KeyOrders(S) ==
    {o \in [1 .. Cardinality(S) -> S] : \A a, b \in 1 .. Cardinality(S) : a # b => o[a] # o[b]}

\* The message vectors of one message.
SingleMessages == {msgs \in MessageVectors : Len(msgs) = 1}

\* One signing session on key shares of the caller's, generate_shares taken in
\* two steps, then reconstruction and verification under master_secret_x*G2.
InitSession == InitAll

NextSession ==
    \/ \E S \in SignerSets, msgs \in SingleMessages, x \in Fr :
           \E keys \in KeyOrders(S), signing_servers \in [S -> randbelow(FIELD_ORDER)] :
               ConstructSigning(keys, signing_servers, msgs, generate_h_vector(Len(msgs)), x)
    \/ SessionRun
    \/ SessionReturn
    \/ Reconstruct
    \/ VerifyFinal(multiply(G2_GENERATOR, master_secret_x))

SpecSession == InitSession /\ [][NextSession]_vars

\* Direct calls of the library's functions on inputs of the caller's choice.
InitAPI == InitAll

NextAPI ==
    \/ VerifyAltered
    \/ CallEvaluate
    \/ CallSign
    \/ CallVerify
    \/ CallInterpolateScalars
    \/ CallInterpolateG2
    \/ CallInterpolatePolynomial

SpecAPI == InitAPI /\ [][NextAPI]_vars

\* ------------------------------------------------------------------- claims

RECURSIVE USumOf(_)
\* The sum of the u_i of a share list, as an integer.
USumOf(shares) ==
    IF shares = <<>> THEN 0 ELSE shares[1].u_i + USumOf(Tail(shares))

RECURSIVE RSumOf(_)
\* The sum in G1 of the R_i of a share list.
RSumOf(shares) ==
    IF shares = <<>> THEN 0 ELSE (shares[1].R_i + RSumOf(Tail(shares))) % FIELD_ORDER

\* Some share's e or s is not that of the first share.
SomeShareDisagrees(shares) ==
    \E k \in 1 .. Len(shares) : shares[k].e # shares[1].e \/ shares[k].s # shares[1].s

\* C1 (SpecBBS): whenever BBSPlus.sign returns a signature on l >= 1 messages
\* under a secret x, BBSPlus.verify accepts it under x*G2, whatever nonces e
\* and s were sampled.
C1_SignThenVerify ==
    verified # None => verified = Bool(TRUE)

C1_Witness ==
    /\ verified = Bool(TRUE)
    /\ Len(messages) > 1
    /\ sk_x # 0
    /\ signature.e # 0
    /\ signature.s # 0

\* C2 as stated (SpecPipeline): for every choice of the nonces, the shares of a
\* t-subset of the DKG run reconstruct to a signature that verify accepts
\* under the DKG's master public key.
C2_AlwaysASignature ==
    (sign_pc = "reconstructed" /\ dkg_t >= 1) =>
        /\ ~Raised(final_signature)
        /\ verify(H, dkg_result.master_public_key, messages, final_signature) = Bool(TRUE)

\* C2 amended (SpecPipeline): the pipeline yields a signature that verify
\* accepts under the DKG's master public key unless the emitted u_i sum to 0
\* modulo q, and then reconstruct_signature fails with ZeroUSum.
C2_SignatureUnlessZeroUSum ==
    (sign_pc \in {"reconstructed", "verified"} /\ dkg_t >= 1) =>
        IF USumOf(signature_shares) % FIELD_ORDER = 0
        THEN final_signature = ZeroUSum
        ELSE /\ ~Raised(final_signature)
             /\ verify(H, dkg_result.master_public_key, messages, final_signature)
                    = Bool(TRUE)
             /\ sign_pc = "verified" => final_valid = Bool(TRUE)

C2_Witness ==
    /\ sign_pc = "verified"
    /\ final_valid = Bool(TRUE)
    /\ dkg_n = 3
    /\ dkg_t = 2
    /\ master_secret_x # 0
    /\ final_signature.e # 0

\* C3 (SpecDKG): after run_protocol returns (private_shares, X) for
\* 1 <= t <= n, every t-sized subset of the shares interpolates at 0 to one
\* and the same scalar x, and x*G2 = X.
C3_SharesInterpolateToMasterKey ==
    (dkg_pc = "returned" /\ 1 <= dkg_t /\ dkg_t <= dkg_n) =>
        \E x \in Fr :
            /\ multiply(G2_GENERATOR, x) = dkg_result.master_public_key
            /\ \A S \in SUBSET (1 .. dkg_n) :
                   Cardinality(S) = dkg_t =>
                       interpolate_scalars([i \in S |-> dkg_result.private_shares[i]], 0)
                           = [kind |-> "int", val |-> x]

C3_Witness ==
    /\ dkg_pc = "returned"
    /\ dkg_n = 3
    /\ dkg_t = 2
    /\ dkg_result.master_public_key # G2_INFINITY
    /\ dkg_result.private_shares[1] # dkg_result.private_shares[2]

\* C4 (SpecBBS): for a signature that verify accepts and any set of revealed
\* indices, verify_proof returns true on the proof create_proof made, under
\* the nonce it was made with.
C4_ProofCompleteness ==
    (bbs_pc = "proof_verified" /\ verify_nonce = proof_nonce) =>
        proof_result = Bool(TRUE)

\* C5 as stated (SpecDKG): for 1 <= t <= n, the consistency check raises on
\* the public shares of an honest run with any one of them replaced by a
\* different G2 point.
C5_AnyAlteredShareDetected ==
    (tamper.kind = "checked" /\ 1 <= dkg_t /\ dkg_t <= dkg_n) => tamper.raised

\* C5 amended (SpecDKG): for 1 <= t < n, the consistency check raises on the
\* public shares of an honest run with any one of them replaced by a
\* different G2 point.
C5_AlteredShareDetectedBelowN ==
    (tamper.kind = "checked" /\ 1 <= dkg_t /\ dkg_t < dkg_n) => tamper.raised

C5_Witness ==
    /\ tamper.kind = "checked"
    /\ tamper.raised
    /\ dkg_n = 3
    /\ dkg_t = 2
    /\ tamper.k = 1

\* C6 (SpecRecon): reconstruct_signature fails with 'Signature fragments are
\* inconsistent!' whenever some share's e or s differs from that of
\* shares[0], also when the u_i sum to 0.
C6_InconsistentFirst ==
    (sign_pc = "reconstructed" /\ SomeShareDisagrees(signature_shares)) =>
        final_signature = Inconsistent

C6_Witness ==
    /\ sign_pc = "reconstructed"
    /\ final_signature = Inconsistent
    /\ Len(signature_shares) = 3
    /\ signature_shares[2].e = signature_shares[1].e
    /\ signature_shares[2].s = signature_shares[1].s
    /\ signature_shares[3].e = signature_shares[1].e
    /\ signature_shares[3].s # signature_shares[1].s
    /\ USumOf(signature_shares) % FIELD_ORDER = 0

\* C7 (SpecRecon): for shares that agree on e and s with shares[0],
\* reconstruct_signature fails with 'The sum of u_i is 0' exactly when the u_i
\* sum to 0 modulo q.
C7_ZeroUSumExactly ==
    (/\ sign_pc = "reconstructed"
     /\ signature_shares # <<>>
     /\ ~SomeShareDisagrees(signature_shares)) =>
        (final_signature = ZeroUSum <=> USumOf(signature_shares) % FIELD_ORDER = 0)

C7_Witness ==
    /\ sign_pc = "reconstructed"
    /\ final_signature = ZeroUSum
    /\ Len(signature_shares) > 1
    /\ signature_shares[1].u_i # 0
    /\ USumOf(signature_shares) > 0

\* C8 (SpecRecon): for a non-empty list of shares that agree on e and s and
\* whose u_i sum U is not 0 modulo q, reconstruct_signature returns (A, e, s)
\* with U*A the sum of the R_i from the identity, e and s those of shares[0].
C8_ReconstructedSignature ==
    (/\ sign_pc = "reconstructed"
     /\ ~SomeShareDisagrees(signature_shares)
     /\ USumOf(signature_shares) % FIELD_ORDER # 0) =>
        /\ final_signature.kind = "FinalSignature"
        /\ multiply(final_signature.A, USumOf(signature_shares) % FIELD_ORDER)
               = RSumOf(signature_shares)
        /\ final_signature.e = signature_shares[1].e
        /\ final_signature.s = signature_shares[1].s

C8_Witness ==
    /\ sign_pc = "reconstructed"
    /\ final_signature.kind = "FinalSignature"
    /\ Len(signature_shares) = 3
    /\ final_signature.A # G1_INFINITY
    /\ USumOf(signature_shares) % FIELD_ORDER > 1
    /\ final_signature.e # 0

\* C9 (SpecDKG): constructing a DistributedKeyGenerator with t > n fails with
\* ValueError, and then no polynomial is ever sampled and no share produced;
\* with t <= n the construction succeeds.
C9_ThresholdGuard ==
    dkg_pc # "new" =>
        IF ctor_t > ctor_n
        THEN /\ dkg_pc = "ctor_ValueError"
             /\ server_polynomials = EmptyDict
             /\ points_received_by_server = EmptyDict
             /\ private_shares = EmptyDict
             /\ public_shares = EmptyDict
             /\ dkg_result = NoResult
        ELSE /\ dkg_pc # "ctor_ValueError"
             /\ dkg_n = ctor_n
             /\ dkg_t = ctor_t

C9_Witness ==
    /\ dkg_pc = "ctor_ValueError"
    /\ ctor_t = ctor_n + 1
    /\ ctor_n > 1

\* C10 (SpecDKG): run_protocol returns exactly n private shares, keyed by the
\* server ids 1..n, each an integer in [0, q).
C10_SharesKeyedAndReduced ==
    dkg_pc = "returned" =>
        /\ DOMAIN dkg_result.private_shares = 1 .. ctor_n
        /\ \A i \in 1 .. ctor_n : dkg_result.private_shares[i] \in 0 .. (FIELD_ORDER - 1)

C10_Witness ==
    /\ dkg_pc = "returned"
    /\ ctor_n = 3
    /\ \E i \in 1 .. 3 : dkg_result.private_shares[i] = FIELD_ORDER - 1
    /\ \E i \in 1 .. 3 : dkg_result.private_shares[i] = 0

RECURSIVE PowerOf(_, _)
\* x to the power k.
PowerOf(x, k) == IF k = 0 THEN 1 ELSE x * PowerOf(x, k - 1)

RECURSIVE PowerSum(_, _)
\* c_0 + c_1*x + ... + c_d*x^d, as an integer.
PowerSum(coeffs, x) ==
    IF coeffs = <<>> THEN 0
    ELSE coeffs[Len(coeffs)] * PowerOf(x, Len(coeffs) - 1)
             + PowerSum(SubSeq(coeffs, 1, Len(coeffs) - 1), x)

\* C15 (SpecAPI): evaluate_polynomial(coeffs, x, q) is
\* (c_0 + c_1*x + ... + c_d*x^d) mod q, lies in [0, q), and is 0 for the
\* empty coefficient list.
C15_HornerLaw ==
    call.kind = "evaluate_polynomial" =>
        /\ ret.val = PowerSum(call.coeffs, call.x) % FIELD_ORDER
        /\ ret.val \in 0 .. (FIELD_ORDER - 1)
        /\ call.coeffs = <<>> => ret.val = 0

C15_Witness ==
    /\ call.kind = "evaluate_polynomial"
    /\ Len(call.coeffs) = 3
    /\ call.coeffs[1] # call.coeffs[3]
    /\ call.coeffs[3] % FIELD_ORDER # 0
    /\ call.x > 1
    /\ ret.val # 0
    /\ PowerSum(call.coeffs, call.x) >= FIELD_ORDER

C16_Checks(h_vector, X, pf, nonce) ==
    LET hidden_sum == SumOver(h_vector, pf.resp_m, SortedKeys(DOMAIN pf.resp_m))
        revealed_sum == SumOver(h_vector, pf.revealed, SortedKeys(DOMAIN pf.revealed))
        F == (G1_GENERATOR + pf.resp_r1 * h_vector[1] + revealed_sum + hidden_sum)
                 % FIELD_ORDER
    IN  /\ pf.c = FiatShamir(pf.A_bar, pf.B_bar, pf.D, pf.T1, pf.T2, nonce)
        /\ (pf.resp_e * pf.A_bar + pf.resp_r1 * pf.D) % FIELD_ORDER
               = (pf.T1 + pf.c * pf.B_bar) % FIELD_ORDER
        /\ (pf.resp_r3 * pf.D + hidden_sum) % FIELD_ORDER = pf.T2
        /\ pairing(add(X, multiply(G2_GENERATOR, pf.resp_e)), pf.A_bar)
               = pairing(G2_GENERATOR, F)

\* C16 (SpecBBS): verify_proof never raises, and returns true exactly when
\* the four checks (a) to (d) hold and false otherwise.
C16_TrueIffFourChecks ==
    /\ bbs_pc = "proof_verified" =>
           /\ ~Raised(proof_result)
           /\ proof_result = Bool(C16_Checks(H, multiply(G2_GENERATOR, sk_x), proof,
                                             verify_nonce))
    /\ tampered.kind = "verified" =>
           /\ ~Raised(tampered.result)
           /\ tampered.result = Bool(C16_Checks(H, multiply(G2_GENERATOR, sk_x),
                                                tampered.proof, verify_nonce))

\* C14 as stated (SpecUnlink): two proofs made by two calls of create_proof on
\* the same signature, messages, revealed indices and nonce always differ in
\* at least one component.
C14_ProofsAlwaysDiffer ==
    unlink.kind = "compared" => ~unlink.identical

\* C14 amended (SpecUnlink): the two proofs are identical when the two calls draw
\* the same scalars, and differ in at least one component when they draw
\* different ones, A and B of the signature are not the identity and neither
\* call draws r2 = 0.
C14_ProofsDifferWithDraws ==
    unlink.kind = "compared" =>
        /\ unlink.same_draws => unlink.identical
        /\ (/\ ~unlink.same_draws
            /\ ~unlink.r2_zero
            /\ signature.A # 0
            /\ Commitment(H, signature.s, messages) # 0) => ~unlink.identical

C14_Witness ==
    /\ unlink.kind = "compared"
    /\ ~unlink.same_draws
    /\ ~unlink.r2_zero
    /\ ~unlink.identical
    /\ signature.A # 0
    /\ unlink.revealed = {1}
    /\ Len(messages) = 2

\* C17 (SpecAPI): sign and verify fail with a LengthMismatch error, rather
\* than returning a signature or a verdict, whenever the number of messages is
\* not len(H) - 1, too many or too few.
C17_LengthMismatchRaised ==
    (call.kind \in {"sign", "verify"} /\ Len(call.messages) # Len(call.H) - 1) =>
        ret.kind = "LengthMismatch"

\* C18 (SpecAPI): interpolate_scalars, interpolate_g2_points and
\* interpolate_polynomial each fail with an error on an empty set of sample
\* points, instead of returning a value.
C18_EmptyPointSetRaises ==
    (/\ call.kind \in {"interpolate_scalars", "interpolate_g2_points",
                       "interpolate_polynomial"}
     /\ DOMAIN call.points = {}) => Raised(ret)

\* C19 (SpecRecon): an empty set of signers given to
\* DistributedSigningProtocol and an empty share list given to
\* reconstruct_signature are each rejected with a ValueError before any
\* computation, and no share or signature is produced.
C19_EmptyInputsRejected ==
    /\ (sign_pc = "reconstructed" /\ signature_shares = <<>>) =>
           final_signature.kind = "ValueError"
    /\ (sign_pc \notin {"idle", "generated", "reconstructed"} /\ DOMAIN servers = {}) =>
           /\ sign_pc = "ValueError"
           /\ signature_shares = <<>>
           /\ final_signature = None

\* C20 (SpecDKG): in every run of run_protocol with 1 <= t <= n, whatever
\* polynomials are sampled, the n public shares lie on one polynomial of
\* degree t-1 in G2, the consistency check passes and run_protocol does not
\* fail.
C20_SharesOnOnePolynomial ==
    (1 <= dkg_t /\ dkg_t <= dkg_n) =>
        /\ dkg_pc \notin {"InconsistentDKG", "run_ValueError"}
        /\ dkg_pc \in {"published", "checked"} =>
               \E c \in [1 .. dkg_t -> Fr] :
                   \A i \in 1 .. dkg_n :
                       public_shares[i] = (G2_GENERATOR * PowerSum(c, i)) % FIELD_ORDER

C20_Witness ==
    /\ dkg_pc = "checked"
    /\ dkg_n = 3
    /\ dkg_t = 2
    /\ public_shares[1] # public_shares[2]
    /\ public_shares[3] = G2_INFINITY


RECURSIVE DictSum(_)
\* The sum of the values of a dict, as an integer.
DictSum(d) ==
    IF DOMAIN d = {} THEN 0
    ELSE LET k == CHOOSE j \in DOMAIN d : TRUE
         IN  d[k] + DictSum([j \in (DOMAIN d) \ {k} |-> d[j]])

\* C21 (SpecSession): every share of one generate_shares call carries the same
\* e and the same s, e the sum of the e_i modulo q and s the sum of the s_i
\* modulo q, and reconstruct_signature does not fail with 'Signature fragments
\* are inconsistent!' on the list as returned.
C21_SharesCarrySessionNonces ==
    /\ sign_pc = "running" =>
           \A k \in 1 .. Len(session.final_shares) :
               /\ session.final_shares[k].e = DictSum(session.e_nonces) % FIELD_ORDER
               /\ session.final_shares[k].s = DictSum(session.s_nonces) % FIELD_ORDER
    /\ sign_pc \in {"generated", "reconstructed", "verified"} =>
           \A k \in 1 .. Len(signature_shares) :
               /\ signature_shares[k].e = signature_shares[1].e
               /\ signature_shares[k].s = signature_shares[1].s
    /\ sign_pc \in {"reconstructed", "verified"} => final_signature # Inconsistent

C21_Witness ==
    /\ sign_pc = "running"
    /\ Len(session.final_shares) = 2
    /\ DictSum(session.e_nonces) > FIELD_ORDER
    /\ DictSum(session.s_nonces) = FIELD_ORDER - 1
    /\ session.final_shares[2].e = DictSum(session.e_nonces) - FIELD_ORDER


\* C22 (SpecSession): generate_shares returns exactly one share per signing
\* server, t shares in all, in strictly ascending order of server_id,
\* whatever the order in which the keys of signing_servers were inserted.
C22_OneSharePerServerAscending ==
    sign_pc \in {"generated", "reconstructed", "verified"} =>
        /\ Len(signature_shares) = sign_t
        /\ sign_t = Cardinality(DOMAIN servers)
        /\ {signature_shares[k].server_id : k \in 1 .. Len(signature_shares)} = DOMAIN servers
        /\ \A k \in 1 .. (Len(signature_shares) - 1) :
               signature_shares[k].server_id < signature_shares[k + 1].server_id

C22_Witness ==
    /\ sign_pc = "generated"
    /\ servers_keys = <<3, 1>>
    /\ Len(signature_shares) = 2
    /\ signature_shares[1].server_id = 1
    /\ signature_shares[2].server_id = 3


RECURSIVE WeightedSum(_, _, _)
\* m_1*h[2] + ... + m_k*h[k+1], as an integer.
WeightedSum(h, msgs, k) ==
    IF k = 0 THEN 0 ELSE msgs[k] * h[k + 1] + WeightedSum(h, msgs, k - 1)

\* B = G1 + s*H[0] + sum over k of m_k*H[k+1].
CommitmentOf(h, s, msgs) ==
    (G1_GENERATOR + s * h[1] + WeightedSum(h, msgs, Len(msgs))) % FIELD_ORDER

\* C23 (SpecSession): for the shares of one generate_shares call, the sum of
\* the u_i is congruent modulo q to (master_secret_x + e) * (sum of the r_i),
\* and the sum of the R_i in G1 is (sum of the r_i) * B.
C23_ShareSums ==
    sign_pc = "running" =>
        LET shares == session.final_shares
            r_sum == DictSum(session.r_nonces)
            B == CommitmentOf(H, shares[1].s, messages)
        IN  /\ USumOf(shares) % FIELD_ORDER
                   = ((master_secret_x + shares[1].e) * r_sum) % FIELD_ORDER
            /\ RSumOf(shares) = (r_sum * B) % FIELD_ORDER

C23_Witness ==
    /\ sign_pc = "running"
    /\ Len(session.final_shares) = 2
    /\ DictSum(session.r_nonces) > FIELD_ORDER
    /\ master_secret_x = 1
    /\ session.final_shares[1].e = 3
    /\ RSumOf(session.final_shares) # 0
    /\ USumOf(session.final_shares) % FIELD_ORDER # 0
    /\ \E i \in DOMAIN servers : servers[i] # 0


\* The smallest server id of the session.
LowestId == CHOOSE i \in DOMAIN servers : \A j \in DOMAIN servers : i <= j

\* The share of server i in a share list.
ShareOfServer(shares, i) == CHOOSE sh \in {shares[k] : k \in 1 .. Len(shares)} : sh.server_id = i

\* (r_i + beta_i) + (e_i + share_i + alpha_i) + the sum over j # i of
\* c_shares[i][j] + d[j], as an integer.
MaskedSum(i, d) ==
    (session.r_nonces[i] + session.betas[i])
        + (session.e_nonces[i] + servers[i] + session.alphas[i])
        + DictSum([j \in (DOMAIN servers) \ {i} |-> session.c_shares[<<i, j>>] + d[j]])

\* d_shares[j][i] = d_ji, the value of lines 70-76 for the ordered pair (i, j).
PairwiseD(i, j) ==
    ((servers[i] + session.alphas[i]) * (session.r_nonces[j] + session.betas[j])
         - session.c_shares[<<i, j>>]) % FIELD_ORDER

\* C24 as stated (SpecSession): for every server i other than the lowest-id
\* one, u_i = (r_i + beta_i) + (e_i + share_i + alpha_i) + the sum over j # i
\* of (c_ij + d_ji) modulo q, with d_ji = (share_i + alpha_i)*(r_j + beta_j) - c_ij.
C24_UWithOwnProducts ==
    sign_pc = "running" =>
        \A i \in (DOMAIN servers) \ {LowestId} :
            ShareOfServer(session.final_shares, i).u_i
                = MaskedSum(i, [j \in (DOMAIN servers) \ {i} |-> PairwiseD(i, j)]) % FIELD_ORDER

\* C24 amended (SpecSession): for every server i other than the lowest-id
\* one, u_i = (r_i + beta_i) + (e_i + share_i + alpha_i) + the sum over j # i
\* of (c_ij + d_ij) modulo q, with d_ij = (share_j + alpha_j)*(r_i + beta_i) - c_ji
\* the value made for the ordered pair (j, i); the u of the lowest-id server
\* is the same expression plus delta, the difference modulo q between
\* (master_secret_x + e) * (sum of the r_i) and the sum of these expressions.
C24_UWithReceivedProducts ==
    sign_pc = "running" =>
        LET ids == DOMAIN servers
            plain == [i \in ids |->
                         MaskedSum(i, [j \in ids \ {i} |-> PairwiseD(j, i)]) % FIELD_ORDER]
            e == session.final_shares[1].e
            delta == ((master_secret_x + e) * DictSum(session.r_nonces) - DictSum(plain))
                         % FIELD_ORDER
        IN  /\ \A p \in ServerPairs(ids) : session.d_shares[<<p[2], p[1]>>] = PairwiseD(p[1], p[2])
            /\ \A i \in ids \ {LowestId} :
                   ShareOfServer(session.final_shares, i).u_i = plain[i]
            /\ ShareOfServer(session.final_shares, LowestId).u_i
                   = (plain[LowestId] + delta) % FIELD_ORDER

C24_Witness ==
    /\ sign_pc = "running"
    /\ DOMAIN servers = {2, 3}
    /\ servers_keys = <<3, 2>>
    /\ session.c_shares[<<2, 3>>] # session.c_shares[<<3, 2>>]
    /\ session.alphas[2] # 0
    /\ session.betas[3] # 0
    /\ servers[3] # servers[2]
    /\ ShareOfServer(session.final_shares, 3).u_i
           # MaskedSum(3, [j \in {2} |-> PairwiseD(3, j)]) % FIELD_ORDER
    /\ ShareOfServer(session.final_shares, 2).u_i
           # MaskedSum(2, [j \in {3} |-> PairwiseD(3, 2)]) % FIELD_ORDER


\* C25 (SpecAPI): on l = len(H) - 1 messages, BBSPlus.sign fails with the
\* ValueError of modular_inverse and returns no signature exactly when the e
\* it sampled satisfies (x + e) = 0 modulo q; for every other e it returns a
\* signature with that e.
C25_SignFailsIffDenominatorZero ==
    (call.kind = "sign" /\ Len(call.messages) = Len(call.H) - 1) =>
        IF (call.x + call.e) % FIELD_ORDER = 0
        THEN ret = ValueError
        ELSE /\ ret.kind = "signature"
             /\ ret.e = call.e
             /\ ret.s = call.s

C25_Witness ==
    /\ call.kind = "sign"
    /\ Len(call.messages) = 2
    /\ Len(call.H) = 3
    /\ call.x > FIELD_ORDER
    /\ call.e # 0
    /\ ret = ValueError


\* A step of generate_shares leaves the fields of the object alone, and the
\* step that returns leaves no local and returns {} as the second value.
GenerateSharesFrame ==
    sign_pc \in {"constructed", "running"} =>
        /\ UNCHANGED <<servers, servers_keys, server_ids, sign_t, messages, H,
                       master_secret_x>>
        /\ sign_pc' = "generated" => (session' = None /\ aux' = EmptyDict)

\* C26 (SpecSession): a call of generate_shares leaves every field of the
\* object (servers, server_ids, t, messages, H, master_secret_x) as it was,
\* and when it returns, its locals, the nonces e_i, s_i, r_i, the masks
\* alpha_i, beta_i and the pairwise c_ij, d_ji among them, are gone and the
\* value returned next to the share list is an empty mapping.
C26_SessionLeavesNothingBehind == [][GenerateSharesFrame]_vars

C26_Witness ==
    /\ sign_pc = "generated"
    /\ session = None
    /\ aux = EmptyDict
    /\ Len(signature_shares) = 2
    /\ signature_shares[1].e # 0
    /\ signature_shares[1].s # 0
    /\ signature_shares[2].R_i # G1_INFINITY
    /\ signature_shares[2].u_i # 0


\* The steps of run_protocol in their order, and the two ways it can fail.
RunOrder ==
    {<<"new", "constructed">>, <<"new", "ctor_ValueError">>, <<"constructed", "sampled">>,
     <<"sampled", "exchanged">>, <<"exchanged", "published">>, <<"published", "checked">>,
     <<"published", "InconsistentDKG">>, <<"checked", "returned">>,
     <<"checked", "run_ValueError">>}

\* What each stage of run_protocol holds: n evaluations per party after the
\* exchange, one from each party; n private shares, each the sum of these
\* modulo q, and n public shares before the check; a result only at the end.
RunStage ==
    /\ dkg_pc \in {"exchanged", "published", "checked"} =>
           /\ DOMAIN points_received_by_server = 1 .. dkg_n
           /\ \A j \in 1 .. dkg_n :
                  /\ Len(points_received_by_server[j]) = dkg_n
                  /\ \A i \in 1 .. dkg_n :
                         points_received_by_server[j][i]
                             = PowerSum(server_polynomials[i], j) % FIELD_ORDER
    /\ dkg_pc \in {"published", "checked"} =>
           /\ DOMAIN private_shares = 1 .. dkg_n
           /\ DOMAIN public_shares = 1 .. dkg_n
           /\ \A j \in 1 .. dkg_n :
                  /\ private_shares[j]
                         = SumSeq([i \in 1 .. dkg_n |-> PowerSum(server_polynomials[i], j)])
                               % FIELD_ORDER
                  /\ public_shares[j] = (G2_GENERATOR * private_shares[j]) % FIELD_ORDER
    /\ dkg_pc \in {"sampled", "exchanged"} => private_shares = EmptyDict /\ public_shares = EmptyDict
    /\ dkg_pc # "returned" => dkg_result = NoResult /\ master_public_key = G2_INFINITY
    /\ dkg_pc = "returned" => DOMAIN dkg_result.private_shares = 1 .. dkg_n

\* A step of run_protocol is the next one of the order.
RunStep == dkg_pc' # dkg_pc => <<dkg_pc, dkg_pc'>> \in RunOrder

\* C27 (SpecDKG): run_protocol goes through sample, exchange, publish, check,
\* key in this order; every party's private share is the sum modulo q of
\* exactly n received evaluations p_i(j), one from each party i in 1..n; all
\* n public shares exist before the consistency check runs; the master public
\* key is computed and the result returned only after the check has passed,
\* and a failing check returns neither shares nor key.
C27_RunProtocolOrder == [](RunStage) /\ [][RunStep]_vars

C27_Witness ==
    /\ dkg_pc = "checked"
    /\ dkg_n = 3
    /\ dkg_t = 2
    /\ SumSeq(points_received_by_server[2]) > FIELD_ORDER
    /\ points_received_by_server[2][2] # 0
    /\ private_shares[2] = SumSeq(points_received_by_server[2]) - FIELD_ORDER
    /\ private_shares[2] # 0


\* C28 (SpecSession): for any key-share values in signing_servers, on the
\* polynomial of master_secret_x or not, and any master_secret_x, whenever
\* reconstruct_signature succeeds on the output of generate_shares, the
\* signature (A, e, s) satisfies (x + e)*A = B and BBSPlus.verify accepts it
\* under the public key master_secret_x*G2.
C28_ValidWhateverTheShares ==
    (sign_pc \in {"reconstructed", "verified"} /\ ~Raised(final_signature)) =>
        /\ ((master_secret_x + final_signature.e) * final_signature.A) % FIELD_ORDER
               = CommitmentOf(H, final_signature.s, messages)
        /\ sign_pc = "verified" => final_valid = Bool(TRUE)

C28_Witness ==
    /\ sign_pc = "verified"
    /\ final_valid = Bool(TRUE)
    /\ Cardinality(DOMAIN servers) = 2
    /\ master_secret_x = 2
    /\ interpolate_scalars(servers, 0) = [kind |-> "int", val |-> 1]
    /\ final_signature.e # 0
    /\ final_signature.A # G1_INFINITY


\* The challenge of a proof's commitments under a nonce.
ChallengeUnder(pf, nonce) == FiatShamir(pf.A_bar, pf.B_bar, pf.D, pf.T1, pf.T2, nonce)

\* C29 (SpecBBS): a proof made by create_proof under the nonce N carries the
\* challenge of its commitments under N, and for any nonce N' # N whose
\* challenge differs (the hash does not collide), verify_proof(pk, proof, N')
\* returns false, whatever its other checks would give.
C29_ProofBoundToNonce ==
    /\ bbs_pc \in {"proved", "proof_verified"} => proof.c = ChallengeUnder(proof, proof_nonce)
    /\ (/\ bbs_pc = "proof_verified"
        /\ verify_nonce # proof_nonce
        /\ ChallengeUnder(proof, verify_nonce) # ChallengeUnder(proof, proof_nonce)) =>
           proof_result = Bool(FALSE)

C29_Witness ==
    /\ bbs_pc = "proof_verified"
    /\ verify_nonce # proof_nonce
    /\ ChallengeUnder(proof, verify_nonce) # ChallengeUnder(proof, proof_nonce)
    /\ proof_result = Bool(FALSE)
    /\ T1Ok(proof)
    /\ T2Ok(H, proof)
    /\ PairingOk(H, multiply(G2_GENERATOR, sk_x), proof)
    /\ proof.A_bar # G1_INFINITY
    /\ DOMAIN proof.revealed = {1}

====
